---- MODULE Spec2Model ----
(***************************************************************************)
(* WattCompare backend (src/app.py): the appliance table kept in SQLite,   *)
(* the energy extractor applied to recognized label text, and the HTTP     *)
(* handlers home, ocr, add_appliance, list_appliances, compare and         *)
(* export_pdf.                                                             *)
(*                                                                         *)
(* Text is a sequence of one-character strings.  Python floats are exact   *)
(* rationals [k |-> "num", n, d] in lowest terms (binary rounding is not   *)
(* modelled); float NaN is [k |-> "nan"]; Python None and SQL NULL are     *)
(* [k |-> "null"].                                                         *)
(***************************************************************************)
EXTENDS Integers, Sequences, FiniteSets, TLC

\* Bounds of the model
MaxRecords == 2     \* rows the table may hold
MaxClock == 1       \* seconds the wall clock may advance
MaxPieces == 4      \* pieces a recognized text is built from (SpecExtract)

VARIABLES
    table,            \* rows of table appliances, in rowid order
    sqlite_sequence,  \* AUTOINCREMENT's record of the largest rowid ever used
    clock,            \* CURRENT_TIMESTAMP, in seconds
    pending,          \* per worker: the add_appliance call between parsing and INSERT
    req,              \* the request handled last
    resp,             \* its response
    added,            \* history: the add_appliance requests that stored a row
    xin,              \* SpecExtract: the text regions the OCR reader returned
    xout              \* SpecExtract: what the extractor made of them

vars == <<table, sqlite_sequence, clock, pending, req, resp, added, xin, xout>>

----------------------------------------------------------------------------
\* Numbers

Null == [k |-> "null", n |-> 0, d |-> 1]
NaN == [k |-> "nan", n |-> 0, d |-> 1]

RECURSIVE GCD(_, _)
GCD(a, b) == IF b = 0 THEN a ELSE GCD(b, a % b)

Num(n, d) ==
    LET g == GCD(n, d)
    IN  IF n = 0 THEN [k |-> "num", n |-> 0, d |-> 1]
        ELSE [k |-> "num", n |-> n \div g, d |-> d \div g]

Zero == Num(0, 1)

FMul(a, b) == Num(a.n * b.n, a.d * b.d)

FLess(a, b) == a.n * b.d < b.n * a.d

RECURSIVE Pow10(_)
Pow10(e) == IF e = 0 THEN 1 ELSE 10 * Pow10(e - 1)

\* Python truth value of None / a float: None and 0.0 are false
Truthy(v) == v.k = "nan" \/ (v.k = "num" /\ v.n # 0)

----------------------------------------------------------------------------
\* Characters and decimal literals

Digits == {"0", "1", "2", "3", "4", "5", "6", "7", "8", "9"}

IsDigit(c) == c \in Digits

IsSpace(c) == c = " "

DigitVal(c) ==
    CASE c = "0" -> 0 [] c = "1" -> 1 [] c = "2" -> 2 [] c = "3" -> 3
      [] c = "4" -> 4 [] c = "5" -> 5 [] c = "6" -> 6 [] c = "7" -> 7
      [] c = "8" -> 8 [] c = "9" -> 9

\* str.lower() on the letters the model's texts use
LowerChar(c) ==
    CASE c = "K" -> "k" [] c = "W" -> "w" [] c = "H" -> "h"
      [] c = "R" -> "r" [] c = "E" -> "e" [] OTHER -> c

Lower(t) == [i \in 1..Len(t) |-> LowerChar(t[i])]

\* " ".join(regions)
RECURSIVE Join(_)
Join(rs) ==
    IF Len(rs) = 0 THEN <<>>
    ELSE IF Len(rs) = 1 THEN rs[1]
    ELSE rs[1] \o <<" ">> \o Join(Tail(rs))

\* \d* and \s* from position i: the number of digits (blanks) that follow
RECURSIVE DigitRun(_, _)
DigitRun(t, i) == IF i <= Len(t) /\ IsDigit(t[i]) THEN 1 + DigitRun(t, i + 1) ELSE 0

RECURSIVE SpaceRun(_, _)
SpaceRun(t, i) == IF i <= Len(t) /\ IsSpace(t[i]) THEN 1 + SpaceRun(t, i + 1) ELSE 0

HasAt(t, i, w) == i + Len(w) - 1 <= Len(t) /\ SubSeq(t, i, i + Len(w) - 1) = w

\* digits [. digits]: is s such a literal, and the float it denotes
IsDecimal(s) ==
    LET a == DigitRun(s, 1)
    IN  /\ a >= 1
        /\ \/ a = Len(s)
           \/ /\ s[a + 1] = "."
              /\ a + 1 + DigitRun(s, a + 2) = Len(s)

RECURSIVE DigitsToInt(_)
DigitsToInt(s) ==
    IF Len(s) = 0 THEN 0
    ELSE 10 * DigitsToInt(SubSeq(s, 1, Len(s) - 1)) + DigitVal(s[Len(s)])

DecimalValue(s) ==
    LET a == DigitRun(s, 1)
        frac == IF a = Len(s) THEN <<>> ELSE SubSeq(s, a + 2, Len(s))
    IN  Num(DigitsToInt(SubSeq(s, 1, a) \o frac), Pow10(Len(frac)))

\* float(s) on a string: a decimal literal, "nan", or ValueError
ParseFloat(s) ==
    IF s = <<"n", "a", "n">> THEN [ok |-> TRUE, v |-> NaN]
    ELSE IF IsDecimal(s) THEN [ok |-> TRUE, v |-> DecimalValue(s)]
    ELSE [ok |-> FALSE, v |-> Null]

----------------------------------------------------------------------------
\* re.search(r"(\d+\.?\d*)\s*(kwh|kw)", text)

KWH == <<"k", "w", "h">>
KW == <<"k", "w">>

\* the ways the pattern matches with its first character at position i:
\* a digits, an optional dot, c digits, s blanks, then the unit
MatchesAt(t, i) ==
    { m \in [a : 1..DigitRun(t, i), dot : {0, 1}, c : 0..(Len(t) - i),
              s : 0..(Len(t) - i), unit : {KWH, KW}] :
        /\ m.dot = 1 => (i + m.a <= Len(t) /\ t[i + m.a] = ".")
        /\ m.c <= DigitRun(t, i + m.a + m.dot)
        /\ m.s <= SpaceRun(t, i + m.a + m.dot + m.c)
        /\ HasAt(t, i + m.a + m.dot + m.c + m.s, m.unit) }

\* the backtracking order: greedy quantifiers first, kwh before kw
Prefers(x, y) ==
    \/ x.a > y.a
    \/ x.a = y.a /\ x.dot > y.dot
    \/ x.a = y.a /\ x.dot = y.dot /\ x.c > y.c
    \/ x.a = y.a /\ x.dot = y.dot /\ x.c = y.c /\ x.s > y.s
    \/ x.a = y.a /\ x.dot = y.dot /\ x.c = y.c /\ x.s = y.s /\ x.unit = KWH /\ y.unit = KW

SearchStart_Last(t) ==
    LET S == {i \in 1..Len(t) : MatchesAt(t, i) # {}}
    IN  IF S = {} THEN 0 ELSE CHOOSE i \in S : \A j \in S : j <= i

\* the leftmost position at which the pattern matches, 0 when it matches nowhere
SearchStart(t) ==
    LET S == {i \in 1..Len(t) : MatchesAt(t, i) # {}}
    IN  IF S = {} THEN 0 ELSE CHOOSE i \in S : \A j \in S : i <= j

re_search(t) ==
    LET i == SearchStart(t)
    IN  IF i = 0 THEN [found |-> FALSE, g1 |-> <<>>, g2 |-> <<>>]
        ELSE LET C == MatchesAt(t, i)
                 m == CHOOSE x \in C : \A y \in C : x = y \/ Prefers(x, y)
             IN  [found |-> TRUE,
                  g1 |-> SubSeq(t, i, i + m.a + m.dot + m.c - 1),
                  g2 |-> m.unit]

\* 24 * 365 / 1000
KwFactor == Num(24 * 365, 1000)

\* lines 56-63, on the lowered text
EnergyOf(text) ==
    LET match == re_search(text)
        val == DecimalValue(match.g1)
    IN  IF match.found
        THEN [val |-> IF match.g2 = KW THEN FMul(val, KwFactor) ELSE val, text |-> text]
        ELSE [val |-> Null, text |-> text]

\* lines 52-63: the reader's regions joined, lowered and searched
ExtractFromRegions(regions) == EnergyOf(Lower(Join(regions)))

----------------------------------------------------------------------------
\* SpecExtract: the extractor applied to every text of up to MaxPieces pieces

Pieces == { <<"1">>, <<"2">>, <<".">>, <<" ">>, KW, KWH, <<"K", "W">>, <<"x">> }

RECURSIVE Concat(_)
Concat(ps) == IF Len(ps) = 0 THEN <<>> ELSE ps[1] \o Concat(Tail(ps))

Texts == UNION { { Concat(ps) : ps \in [1..n -> Pieces] } : n \in 0..MaxPieces }

NotRun == [val |-> Null, text |-> <<"?">>]

ExtractStep ==
    /\ xout = NotRun
    /\ xout' = ExtractFromRegions(xin)
    /\ UNCHANGED <<table, sqlite_sequence, clock, pending, req, resp, added, xin>>

----------------------------------------------------------------------------
\* Images and the OCR reader

NoImage == "none"

Images == {"label_kwh", "label_kw", "label_zero", "no_label", "corrupt"}

\* cv2.imdecode returns None for bytes that are no image, and cvtColor raises
Decodable(img) == img # "corrupt"

\* reader.readtext(gray): the text regions on the label
ReadText(img) ==
    CASE img = "label_kwh" ->
            << <<"E", "c", "o">>, <<"2", "5", "0", " ", "k", "W", "h", "/", "y", "r">> >>
      [] img = "label_kw" ->
            << <<"R", "a", "t", "e", "d">>, <<"0", ".", "5">>, <<"k", "W">> >>
      [] img = "label_zero" -> << <<"0", " ", "k", "w", "h">> >>
      [] OTHER -> << <<"E", "c", "o">> >>

\* the extractor's result for each image that decodes
ExtractedFrom ==
    [img \in {i \in Images : Decodable(i)} |-> ExtractFromRegions(ReadText(img))]

extract_energy_from_image(img) == ExtractedFrom[img]

----------------------------------------------------------------------------
\* Requests

\* a form field: a string of characters, or not sent; the name is kept whole
Absent == [present |-> FALSE, s |-> <<>>]
Field(s) == [present |-> TRUE, s |-> s]
NoName == [present |-> FALSE, s |-> ""]

AddReq(name, price, rate, img) ==
    [name |-> name, price |-> price, energy_rate |-> rate, image |-> img]

NoAdd == AddReq(NoName, Absent, Absent, NoImage)

\* the add_appliance requests the model submits
AddRequests ==
    { AddReq(Field("Fridge"), Field(<<"2">>), Field(<<"3">>), "label_kwh"),
      AddReq(Field("Heater"), Absent, Field(<<"1", ".", "5">>), "label_kw"),
      AddReq(Field("Fan"), Field(<<"n", "a", "n">>), Field(<<"0">>), "label_kwh"),
      AddReq(NoName, Field(<<"2">>), Field(<<"3">>), NoImage),
      AddReq(Field("Lamp"), Field(<<"1", ".", "5">>), Field(<<"3">>), "label_zero"),
      AddReq(Field("Fan"), Field(<<"2">>), Field(<<"n", "a", "n">>), "no_label"),
      AddReq(Field("Oven"), Field(<<"a", "b", "c">>), Field(<<"3">>), NoImage),
      AddReq(Field("Oven"), Field(<<"2">>), Field(<<>>), NoImage),
      AddReq(Field("Oven"), Field(<<"2">>), Field(<<"3">>), "corrupt") }

\* the value of "ids" in a /compare body: missing or null, a list, or a number
IdsAbsent == [t |-> "absent", v |-> <<>>, n |-> 0]
IdsList(v) == [t |-> "list", v |-> v, n |-> 0]
IdsInt(n) == [t |-> "int", v |-> <<>>, n |-> n]

NoBody == [json |-> FALSE, ids |-> IdsAbsent]
JsonBody(ids) == [json |-> TRUE, ids |-> ids]

IdRange == 1..(MaxRecords + 1)

CompareBodies ==
    {NoBody, JsonBody(IdsAbsent), JsonBody(IdsInt(0)), JsonBody(IdsInt(5)),
     JsonBody(IdsList(<<>>)), JsonBody(IdsList(<<1>>)), JsonBody(IdsList(<<1, 2, 1>>))}
    \cup { JsonBody(IdsList(<<a, b>>)) : a \in IdRange, b \in IdRange }

Request(op, add, img, body) == [op |-> op, add |-> add, image |-> img, body |-> body]

\* Responses
JsonError(status, msg) == [status |-> status, kind |-> "json_error", body |-> msg]
Json(body) == [status |-> 200, kind |-> "json", body |-> body]
\* an exception no handler catches: the framework's own error page
Unhandled == [status |-> 500, kind |-> "html", body |-> "Internal Server Error"]

----------------------------------------------------------------------------
\* The appliances table

NullText == [k |-> "null", s |-> ""]
Text(s) == [k |-> "text", s |-> s]

\* binding a Python value to a statement parameter: None becomes NULL, and
\* SQLite stores a NaN double as NULL
BindText(f) == IF f.present THEN Text(f.s) ELSE NullText
BindReal(v) == IF v.k = "nan" THEN Null ELSE v

RECURSIVE MaxId(_)
MaxId(tbl) ==
    IF Len(tbl) = 0 THEN 0
    ELSE LET m == MaxId(Tail(tbl)) IN IF tbl[1].id > m THEN tbl[1].id ELSE m

NextRowId_Reuse(tbl, seq) == IF Len(tbl) = 0 THEN 1 ELSE Len(tbl)

\* id INTEGER PRIMARY KEY AUTOINCREMENT: one more than the largest rowid ever used
NextRowId(tbl, seq) == (IF MaxId(tbl) > seq THEN MaxId(tbl) ELSE seq) + 1

InsertRow_Replace(tbl, row) == <<row>>

\* INSERT INTO appliances: the new row follows the rows there are
InsertRow(tbl, row) == Append(tbl, row)

\* the row of INSERT ... (name, energy_kwh, price, energy_rate) VALUES (?, ?, ?, ?)
NewRow(tbl, seq, now, name, energy_kwh, price, energy_rate) ==
    [id |-> NextRowId(tbl, seq),
     name |-> BindText(name),
     energy_kwh |-> BindReal(energy_kwh),
     price |-> BindReal(price),
     energy_rate |-> BindReal(energy_rate),
     timestamp |-> now]

\* SELECT * FROM appliances WHERE id IN (?, ?): the matching rows, by rowid
SelectByIds(tbl, id1, id2) == SelectSeq(tbl, LAMBDA r : r.id \in {id1, id2})

----------------------------------------------------------------------------
\* add_appliance

\* request.form.get(key, 0) handed to float()
FormFloat(f) == IF f.present THEN ParseFloat(f.s) ELSE [ok |-> TRUE, v |-> Zero]

\* lines 90-98: the fields parsed and the image read; ok is FALSE when float()
\* or the image decoding raises
AddParse(r) ==
    LET price == FormFloat(r.price)
        rate == FormFloat(r.energy_rate)
        hasImage == r.image # NoImage
    IN  [ok |-> price.ok /\ rate.ok /\ (hasImage => Decodable(r.image)),
         name |-> r.name,
         price |-> price.v,
         energy_rate |-> rate.v,
         energy_kwh |-> IF hasImage /\ Decodable(r.image)
                        THEN extract_energy_from_image(r.image).val ELSE Null]

\* lines 109-115
AddResponse(p) ==
    Json([message |-> "Appliance added successfully",
          data |-> [name |-> BindText(p.name), price |-> p.price,
                    energy_kwh |-> p.energy_kwh, energy_rate |-> p.energy_rate]])

\* lines 100-115: the INSERT and the reply
AddStore(r) ==
    LET p == AddParse(r)
        row == NewRow(table, sqlite_sequence, clock, p.name, p.energy_kwh, p.price,
                      p.energy_rate)
    IN  /\ Len(table) < MaxRecords
        /\ table' = InsertRow(table, row)
        /\ sqlite_sequence' = row.id
        /\ added' = Append(added, r)
        /\ req' = Request("add_appliance", r, r.image, NoBody)
        /\ resp' = AddResponse(p)

AddRaise(r) ==
    /\ req' = Request("add_appliance", r, r.image, NoBody)
    /\ resp' = Unhandled
    /\ UNCHANGED <<table, sqlite_sequence, added>>

add_appliance(r) ==
    /\ IF AddParse(r).ok THEN AddStore(r) ELSE AddRaise(r)
    /\ UNCHANGED <<clock, pending, xin, xout>>

----------------------------------------------------------------------------
\* The handlers that only read

home ==
    /\ req' = Request("home", NoAdd, NoImage, NoBody)
    /\ resp' = Json("WattCompare Backend is Live")
    /\ UNCHANGED <<table, sqlite_sequence, clock, pending, added, xin, xout>>

ocr_endpoint(img) ==
    /\ req' = Request("ocr", NoAdd, img, NoBody)
    /\ resp' = IF img = NoImage THEN JsonError(400, "No image uploaded")
               ELSE IF ~Decodable(img) THEN Unhandled
               ELSE LET e == extract_energy_from_image(img)
                    IN  Json([energy_kwh |-> e.val, raw_text |-> e.text])
    /\ UNCHANGED <<table, sqlite_sequence, clock, pending, added, xin, xout>>

\* lines 125-135
ListView(tbl) ==
    [i \in 1..Len(tbl) |->
        [id |-> tbl[i].id, name |-> tbl[i].name, energy_kwh |-> tbl[i].energy_kwh,
         price |-> tbl[i].price, energy_rate |-> tbl[i].energy_rate,
         timestamp |-> tbl[i].timestamp]]

list_appliances ==
    /\ req' = Request("list_appliances", NoAdd, NoImage, NoBody)
    /\ resp' = Json(ListView(table))
    /\ UNCHANGED <<table, sqlite_sequence, clock, pending, added, xin, xout>>

\* lines 184-191: the page breaks after n lines, the cursor starting at y
RECURSIVE PageBreaks(_, _)
PageBreaks(n, y) ==
    IF n = 0 THEN 0
    ELSE IF y - 20 < 100 THEN 1 + PageBreaks(n - 1, 800)
    ELSE PageBreaks(n - 1, y - 20)

export_pdf ==
    /\ req' = Request("export_pdf", NoAdd, NoImage, NoBody)
    /\ resp' = [status |-> 200, kind |-> "pdf",
                body |-> [lines |-> [i \in 1..Len(table) |->
                                        <<table[i].name, table[i].energy_kwh,
                                          table[i].price, table[i].energy_rate>>],
                          page_breaks |-> PageBreaks(Len(table), 770)]]
    /\ UNCHANGED <<table, sqlite_sequence, clock, pending, added, xin, xout>>

----------------------------------------------------------------------------
\* compare

\* Python's truth value of request.json.get("ids")
IdsTruthy(ids) ==
    CASE ids.t = "absent" -> FALSE
      [] ids.t = "list" -> Len(ids.v) > 0
      [] OTHER -> ids.n # 0

InvalidIds_AtLeastTwo(ids) == ~IdsTruthy(ids) \/ Len(ids.v) < 2

\* line 141, for ids that len() accepts
InvalidIds(ids) == ~IdsTruthy(ids) \/ Len(ids.v) # 2

TooFewRows_None(rows) == Len(rows) < 1

\* line 150
TooFewRows(rows) == Len(rows) < 2

cost_Price(a) ==
    IF Truthy(a.energy_kwh) /\ Truthy(a.price)
    THEN FMul(a.energy_kwh, a.price) ELSE Zero

\* lines 155-156
cost(a) ==
    IF Truthy(a.energy_kwh) /\ Truthy(a.energy_rate)
    THEN FMul(a.energy_kwh, a.energy_rate) ELSE Zero

\* kg CO2 per kWh
CarbonFactor == Num(82, 100)

better_OrEqual(a1, a2) == IF ~FLess(cost(a2), cost(a1)) THEN a1 ELSE a2

\* line 161
better(a1, a2) == IF FLess(cost(a1), cost(a2)) THEN a1 ELSE a2

\* lines 153-168
Comparison(a1, a2) ==
    [A |-> [name |-> a1.name, annual_cost |-> cost(a1),
            carbon |-> FMul(cost(a1), CarbonFactor)],
     B |-> [name |-> a2.name, annual_cost |-> cost(a2),
            carbon |-> FMul(cost(a2), CarbonFactor)],
     recommended |-> better(a1, a2).name]

\* lines 140-168 for a body that parsed as a JSON object
CompareResponse(tbl, ids) ==
    IF IdsTruthy(ids) /\ ids.t = "int" THEN Unhandled      \* len() of a number raises
    ELSE IF InvalidIds(ids) THEN JsonError(400, "Provide exactly 2 IDs")
    ELSE LET rows == SelectByIds(tbl, ids.v[1], ids.v[2])
         IN  IF TooFewRows(rows) THEN JsonError(404, "Appliances not found")
             ELSE IF Len(rows) # 2 THEN Unhandled            \* a1, a2 = rows raises
             ELSE [status |-> 200, kind |-> "json",
                   body |-> [comparison |-> Comparison(rows[1], rows[2])]]

\* request.json without a JSON body: the framework answers with its own error
\* page, 400 or 415 by version and content type, or .get on None raises
NoJsonResponses ==
    { [status |-> st, kind |-> "html", body |-> "error page"] : st \in {400, 415, 500} }

compare(body) ==
    /\ req' = Request("compare", NoAdd, NoImage, body)
    /\ IF body.json THEN resp' = CompareResponse(table, body.ids)
       ELSE resp' \in NoJsonResponses
    /\ UNCHANGED <<table, sqlite_sequence, clock, pending, added, xin, xout>>

----------------------------------------------------------------------------
\* The wall clock

Tick ==
    /\ clock < MaxClock
    /\ clock' = clock + 1
    /\ UNCHANGED <<table, sqlite_sequence, pending, req, resp, added, xin, xout>>

----------------------------------------------------------------------------
\* Spec: requests handled one after the other

Workers == {"w1", "w2"}

Idle == [active |-> FALSE, r |-> NoAdd]

NoRequest == Request("none", NoAdd, NoImage, NoBody)
NoResponse == [status |-> 0, kind |-> "none", body |-> ""]

\* init_db() on a new file: the table exists and is empty
Init ==
    /\ table = <<>>
    /\ sqlite_sequence = 0
    /\ clock = 0
    /\ pending = [w \in Workers |-> Idle]
    /\ req = NoRequest
    /\ resp = NoResponse
    /\ added = <<>>
    /\ xin = <<>>
    /\ xout = NotRun

Next ==
    \/ home
    \/ \E img \in Images \cup {NoImage} : ocr_endpoint(img)
    \/ \E r \in AddRequests : add_appliance(r)
    \/ list_appliances
    \/ \E body \in CompareBodies : compare(body)
    \/ export_pdf
    \/ Tick

Spec == Init /\ [][Next]_vars

----------------------------------------------------------------------------
\* SpecConc: add_appliance calls served by two threads; between a call's
\* parsing (lines 90-98) and its INSERT (lines 100-106) the other thread runs

AddBegin(w, r) ==
    /\ ~pending[w].active
    /\ AddParse(r).ok
    /\ pending' = [pending EXCEPT ![w] = [active |-> TRUE, r |-> r]]
    /\ UNCHANGED <<table, sqlite_sequence, clock, req, resp, added, xin, xout>>

AddFail(w, r) ==
    /\ ~pending[w].active
    /\ ~AddParse(r).ok
    /\ AddRaise(r)
    /\ UNCHANGED <<clock, pending, xin, xout>>

AddCommit(w) ==
    /\ pending[w].active
    /\ AddStore(pending[w].r)
    /\ pending' = [pending EXCEPT ![w] = Idle]
    /\ UNCHANGED <<clock, xin, xout>>

NextConc ==
    \/ \E w \in Workers, r \in AddRequests : AddBegin(w, r)
    \/ \E w \in Workers, r \in AddRequests : AddFail(w, r)
    \/ \E w \in Workers : AddCommit(w)
    \/ list_appliances
    \/ Tick

SpecConc == Init /\ [][NextConc]_vars

----------------------------------------------------------------------------
\* SpecExtract

InitExtract ==
    /\ table = <<>>
    /\ sqlite_sequence = 0
    /\ clock = 0
    /\ pending = [w \in Workers |-> Idle]
    /\ req = NoRequest
    /\ resp = NoResponse
    /\ added = <<>>
    /\ xin \in { <<t>> : t \in Texts }
    /\ xout = NotRun

NextExtract == ExtractStep

SpecExtract == InitExtract /\ [][NextExtract]_vars

----------------------------------------------------------------------------
\* Properties

IsCompare == req.op = "compare" /\ req.body.json

TwoIds == IsCompare /\ req.body.ids.t = "list" /\ Len(req.body.ids.v) = 2

Compared == TwoIds /\ resp.status = 200 /\ resp.kind = "json"

\* the stored rows a /compare request with two ids names
Named == SelectSeq(table, LAMBDA r : r.id \in {req.body.ids.v[1], req.body.ids.v[2]})

\* C1: under any interleaving of add_appliance calls, every change of the table
\* appends exactly one row, whose id is greater than every id assigned before
\* (the ids in the table and the AUTOINCREMENT high-water mark), and the ids of
\* the stored rows are pairwise distinct.
C1_FreshIds ==
    /\ [](\A i, j \in 1..Len(table) : i # j => table[i].id # table[j].id)
    /\ [][table' # table =>
            /\ Len(table') = Len(table) + 1
            /\ SubSeq(table', 1, Len(table)) = table
            /\ table'[Len(table')].id > sqlite_sequence
            /\ \A i \in 1..Len(table) : table'[Len(table')].id > table[i].id]_vars

C1_Witness ==
    /\ Len(table) >= 2
    /\ \E w \in Workers : pending[w].active

\* C2: in a comparison payload, "recommended" is the name of the record with the
\* strictly lower annual cost, and of B when the two annual costs are equal.
C2_Recommended ==
    Compared =>
        LET c == resp.body.comparison
        IN  /\ FLess(c.A.annual_cost, c.B.annual_cost) => c.recommended = c.A.name
            /\ FLess(c.B.annual_cost, c.A.annual_cost) => c.recommended = c.B.name
            /\ c.A.annual_cost = c.B.annual_cost => c.recommended = c.B.name

C2_Witness ==
    /\ Compared
    /\ resp.body.comparison.A.annual_cost = resp.body.comparison.B.annual_cost
    /\ resp.body.comparison.A.name # resp.body.comparison.B.name
    /\ resp.body.comparison.recommended = resp.body.comparison.B.name

\* energy_kwh * energy_rate when both are stored and not zero, otherwise 0
ExpectedCost(r) ==
    IF /\ r.energy_kwh.k = "num" /\ r.energy_kwh.n # 0
       /\ r.energy_rate.k = "num" /\ r.energy_rate.n # 0
    THEN Num(r.energy_kwh.n * r.energy_rate.n, r.energy_kwh.d * r.energy_rate.d)
    ELSE Num(0, 1)

CostAndCarbonOf(entry, r) ==
    /\ entry.annual_cost = ExpectedCost(r)
    /\ entry.carbon = Num(entry.annual_cost.n * 82, entry.annual_cost.d * 100)

\* C3: in a comparison payload, each record's annual_cost is energy_kwh *
\* energy_rate when both are present and non-zero and 0 otherwise, and its
\* carbon is annual_cost * 0.82.
C3_CostAndCarbon ==
    Compared =>
        /\ CostAndCarbonOf(resp.body.comparison.A, Named[1])
        /\ CostAndCarbonOf(resp.body.comparison.B, Named[2])

C3_Witness ==
    /\ Compared
    /\ resp.body.comparison.A.annual_cost.n > 0
    /\ resp.body.comparison.B.annual_cost.n = 0
    /\ Named[2].energy_kwh.k = "num" /\ Named[2].energy_kwh.n > 0
    /\ Named[2].energy_rate.k = "num" /\ Named[2].energy_rate.n = 0

\* C4: a /compare request whose ids are absent, empty, or fewer or more than
\* two is answered 400 with an error body, whatever is stored.
C4_NotTwoIds ==
    (IsCompare /\ (\/ req.body.ids.t = "absent"
                   \/ req.body.ids.t = "list" /\ Len(req.body.ids.v) # 2))
        => resp.status = 400 /\ resp.kind = "json_error"

C4_Witness ==
    /\ IsCompare
    /\ req.body.ids.t = "list" /\ Len(req.body.ids.v) = 3
    /\ Len(table) = 2
    /\ resp.status = 400

\* C5: a /compare request that gives the same id twice is answered 400, also
\* when that id names a stored row (the case stated here).
C5_SameIdTwice ==
    (TwoIds /\ req.body.ids.v[1] = req.body.ids.v[2] /\ Len(Named) = 1)
        => resp.status = 400 /\ resp.kind = "json_error"

\* C6: a /compare request with two ids that name fewer than two stored rows is
\* answered 404 with an error body and no comparison payload.
C6_NotFound ==
    (TwoIds /\ Len(Named) < 2) => resp.status = 404 /\ resp.kind = "json_error"

C6_Witness ==
    /\ TwoIds
    /\ Len(Named) = 1
    /\ req.body.ids.v[1] # req.body.ids.v[2]
    /\ resp.status = 404

\* what list_appliances is to return for a stored add_appliance request
ReadsBack(row, r) ==
    /\ row.name = (IF r.name.present THEN Text(r.name.s) ELSE NullText)
    /\ row.price = FormFloat(r.price).v
    /\ row.energy_rate = FormFloat(r.energy_rate).v
    /\ row.energy_kwh = (IF r.image = NoImage THEN Null
                         ELSE extract_energy_from_image(r.image).val)

\* C7: list_appliances returns, for every add_appliance request that stored a
\* row, a record with exactly the submitted name, price and energy_rate, and
\* the extractor's energy_kwh for the image (null without an image).
C7_RoundTrip ==
    (req.op = "list_appliances" /\ resp.status = 200) =>
        \A i \in 1..Len(added) :
            \E j \in 1..Len(resp.body) : ReadsBack(resp.body[j], added[i])

\* C8: the table is append-only: a step never removes or changes a stored row,
\* and a request other than add_appliance leaves the table as it was.
C8_AppendOnly ==
    [][/\ Len(table') >= Len(table)
       /\ SubSeq(table', 1, Len(table)) = table
       /\ req'.op # "add_appliance" => table' = table]_vars

C8_Witness ==
    /\ Len(table) = 2
    /\ req.op = "compare"
    /\ resp.status = 404

\* the number-plus-unit occurrences of a text: a decimal literal at i..j, then
\* blanks, then kwh or kw
Occurrences(t) ==
    { o \in (1..Len(t)) \X (1..Len(t)) :
        /\ o[1] <= o[2]
        /\ IsDecimal(SubSeq(t, o[1], o[2]))
        /\ \E s \in 0..Len(t) :
              /\ \A x \in 1..s : o[2] + x <= Len(t) /\ t[o[2] + x] = " "
              /\ HasAt(t, o[2] + s + 1, KW) }

UnitIsKwh(t, o) ==
    \E s \in 0..Len(t) :
        /\ \A x \in 1..s : o[2] + x <= Len(t) /\ t[o[2] + x] = " "
        /\ HasAt(t, o[2] + s + 1, KWH)

\* C9: on the lowered recognized text, the extractor uses the leftmost
\* number-plus-unit occurrence: the number as it is for kwh, the number
\* * 24 * 365 / 1000 for kw; without an occurrence it returns no value; in
\* both cases it returns the text as it was given.
C9_Leftmost ==
    xout # NotRun =>
        LET t == Lower(Join(xin))
            occ == Occurrences(t)
        IN  /\ xout.text = t
            /\ IF occ = {} THEN xout.val = Null
               ELSE LET o == CHOOSE x \in occ : \A y \in occ : x[1] <= y[1]
                        number == DecimalValue(SubSeq(t, o[1], o[2]))
                    IN  xout.val = IF UnitIsKwh(t, o) THEN number
                                   ELSE Num(number.n * 24 * 365, number.d * 1000)

C9_Witness ==
    /\ Lower(Join(xin)) = <<"1", "k", "w", "2", "k", "w", "h">>
    /\ xout.val = Num(219, 25)

\* a request with a required field missing or of the wrong type
Malformed ==
    \/ req.op = "ocr" /\ req.image = NoImage
    \/ req.op = "add_appliance"
         /\ (~FormFloat(req.add.price).ok \/ ~FormFloat(req.add.energy_rate).ok)
    \/ req.op = "compare"
         /\ (\/ ~req.body.json
             \/ req.body.ids.t # "list"
             \/ Len(req.body.ids.v) # 2)

\* C10: every malformed request is answered 400 with a JSON error body.
C10_Validated == Malformed => resp.status = 400 /\ resp.kind = "json_error"

====
